---------------------------- MODULE Spec2Model ----------------------------
(***************************************************************************)
(* A model of the kernel-interpolation engine of the image recolouriser    *)
(* (src/recolorizer.py): kernel(), compute_as(), get_Fs() and recolorise().*)
(*                                                                         *)
(* Numbers.  numpy computes in float64; the model computes the same        *)
(* expressions in exact rational arithmetic (rounding is abstracted).  The *)
(* values met are far wider than a 32-bit integer, so                      *)
(* integers are kept as sign and magnitude, the magnitude a little-endian  *)
(* sequence of limbs in base Limb, without leading zero limbs.             *)
(***************************************************************************)
EXTENDS Integers, Sequences, FiniteSets, TLC


---------------------------------------------------------------------------
(* Arbitrary-precision naturals (magnitudes).  Sums and products are       *)
(* formed limb by limb first and the carries resolved afterwards, by       *)
(* halving the range, so that the depth of evaluation stays small.  A limb *)
(* product summed over 128 limbs still fits 32 bits.                       *)

Limb == 64 * 64

RECURSIVE MagNorm(_)
MagNorm(a) ==
    IF a = <<>> THEN <<>>
    ELSE IF a[Len(a)] = 0 THEN MagNorm(SubSeq(a, 1, Len(a) - 1))
    ELSE a

RECURSIVE MagOfNat(_)
MagOfNat(n) == IF n = 0 THEN <<>> ELSE <<n % Limb>> \o MagOfNat(n \div Limb)

Digit(a, i) == IF i <= Len(a) THEN a[i] ELSE 0

\* limbs lo..hi of s with carry c brought in: the limbs and the carry out
RECURSIVE CarryRange(_, _, _, _)
CarryRange(s, lo, hi, c) ==
    IF lo > hi THEN [d |-> <<>>, c |-> c]
    ELSE IF lo = hi THEN
        LET t == s[lo] + c
        IN  [d |-> <<t % Limb>>, c |-> t \div Limb]
    ELSE
        LET mid == (lo + hi) \div 2
            low == CarryRange(s, lo, mid, c)
            high == CarryRange(s, mid + 1, hi, low.c)
        IN  [d |-> low.d \o high.d, c |-> high.c]

\* the magnitude with limb sums s (each may exceed Limb or be negative, the
\* total is not negative)
MagCarry(s) ==
    LET r == CarryRange(s, 1, Len(s), 0)
    IN  MagNorm(r.d \o MagOfNat(r.c))

MagAdd(a, b) ==
    LET n == IF Len(a) >= Len(b) THEN Len(a) ELSE Len(b)
    IN  MagCarry([i \in 1..n |-> Digit(a, i) + Digit(b, i)])

\* -1, 0, 1 as a < b, a = b, a > b
RECURSIVE MagCmpFrom(_, _, _)
MagCmpFrom(a, b, i) ==
    IF i = 0 THEN 0
    ELSE IF a[i] < b[i] THEN -1
    ELSE IF a[i] > b[i] THEN 1
    ELSE MagCmpFrom(a, b, i - 1)

MagCmp(a, b) ==
    IF Len(a) < Len(b) THEN -1
    ELSE IF Len(a) > Len(b) THEN 1
    ELSE MagCmpFrom(a, b, Len(a))

\* a - b for a >= b
MagSub(a, b) == MagCarry([i \in 1..Len(a) |-> a[i] - Digit(b, i)])

\* the sum of a[i] * b[k + 1 - i] for i in lo..hi
RECURSIVE ConvSum(_, _, _, _, _)
ConvSum(a, b, k, lo, hi) ==
    IF lo > hi THEN 0
    ELSE a[lo] * b[k + 1 - lo] + ConvSum(a, b, k, lo + 1, hi)

MagMul(a, b) ==
    IF a = <<>> \/ b = <<>> THEN <<>>
    ELSE MagCarry([k \in 1..(Len(a) + Len(b) - 1) |->
            ConvSum(a, b, k,
                    IF k + 1 - Len(b) > 1 THEN k + 1 - Len(b) ELSE 1,
                    IF k < Len(a) THEN k ELSE Len(a))])

---------------------------------------------------------------------------
(* Signed integers: [s |-> sign in {-1,0,1}, m |-> magnitude].             *)

BigOfInt(n) ==
    IF n = 0 THEN [s |-> 0, m |-> <<>>]
    ELSE IF n > 0 THEN [s |-> 1, m |-> MagOfNat(n)]
    ELSE [s |-> -1, m |-> MagOfNat(-n)]

BigZero == BigOfInt(0)
BigOne == BigOfInt(1)

BigNeg(a) == [s |-> -a.s, m |-> a.m]

BigMul(a, b) ==
    IF a.s = 0 \/ b.s = 0 THEN BigZero
    ELSE IF b.m = <<1>> THEN [s |-> a.s * b.s, m |-> a.m]
    ELSE IF a.m = <<1>> THEN [s |-> a.s * b.s, m |-> b.m]
    ELSE [s |-> a.s * b.s, m |-> MagMul(a.m, b.m)]

BigAdd(a, b) ==
    IF a.s = 0 THEN b
    ELSE IF b.s = 0 THEN a
    ELSE IF a.s = b.s THEN [s |-> a.s, m |-> MagAdd(a.m, b.m)]
    ELSE LET c == MagCmp(a.m, b.m)
         IN  IF c = 0 THEN BigZero
             ELSE IF c > 0 THEN [s |-> a.s, m |-> MagSub(a.m, b.m)]
             ELSE [s |-> b.s, m |-> MagSub(b.m, a.m)]

BigSub(a, b) == BigAdd(a, BigNeg(b))

\* the sign of a - b
BigCmp(a, b) ==
    IF a.s # b.s THEN (IF a.s > b.s THEN 1 ELSE -1)
    ELSE a.s * MagCmp(a.m, b.m)

RECURSIVE BigPow(_, _)
BigPow(a, k) == IF k = 0 THEN BigOne ELSE BigMul(a, BigPow(a, k - 1))

\* the value of a, for an a that fits a machine integer
RECURSIVE MagToNat(_)
MagToNat(a) == IF a = <<>> THEN 0 ELSE a[1] + Limb * MagToNat(Tail(a))

BigToInt(a) == a.s * MagToNat(a.m)

---------------------------------------------------------------------------
(* Rationals: [n |-> signed integer, d |-> signed integer > 0], not        *)
(* reduced; equality and order are by cross multiplication.                *)

Rat(n, d) == [n |-> BigOfInt(n), d |-> BigOfInt(d)]
RatOfInt(n) == Rat(n, 1)
RatZero == RatOfInt(0)
RatOne == RatOfInt(1)

RatAdd(x, y) ==
    IF x.n.s = 0 THEN y
    ELSE IF y.n.s = 0 THEN x
    ELSE IF x.d = y.d THEN [n |-> BigAdd(x.n, y.n), d |-> x.d]
    ELSE [n |-> BigAdd(BigMul(x.n, y.d), BigMul(y.n, x.d)), d |-> BigMul(x.d, y.d)]

RatNeg(x) == [n |-> BigNeg(x.n), d |-> x.d]
RatSub(x, y) == RatAdd(x, RatNeg(y))

RatMul(x, y) ==
    IF x.n.s = 0 \/ y.n.s = 0 THEN RatZero
    ELSE [n |-> BigMul(x.n, y.n), d |-> BigMul(x.d, y.d)]

\* x / y for y # 0
RatDiv(x, y) ==
    IF x.n.s = 0 THEN RatZero
    ELSE IF x.d = y.d THEN
        [n |-> (IF y.n.s > 0 THEN x.n ELSE BigNeg(x.n)), d |-> [s |-> 1, m |-> y.n.m]]
    ELSE IF y.n.s > 0 THEN [n |-> BigMul(x.n, y.d), d |-> BigMul(x.d, y.n)]
    ELSE [n |-> BigNeg(BigMul(x.n, y.d)), d |-> BigNeg(BigMul(x.d, y.n))]

\* the same value over the denominator x.d * c, for an integer c > 0
RatExpand(x, c) ==
    IF c = BigOne THEN x ELSE [n |-> BigMul(x.n, c), d |-> BigMul(x.d, c)]

RatIsZero(x) == x.n.s = 0
RatSign(x) == x.n.s
RatCmp(x, y) ==
    IF x.d = y.d THEN BigCmp(x.n, y.n)
    ELSE BigCmp(BigMul(x.n, y.d), BigMul(y.n, x.d))
RatEq(x, y) == RatCmp(x, y) = 0
RatLeq(x, y) == RatCmp(x, y) <= 0
RatLt(x, y) == RatCmp(x, y) < 0

RatPow(x, k) == [n |-> BigPow(x.n, k), d |-> BigPow(x.d, k)]

\* the largest integer q in lo..hi with q <= x, for lo <= x < hi + 1
RECURSIVE RatFloorIn(_, _, _)
RatFloorIn(x, lo, hi) ==
    IF lo = hi THEN lo
    ELSE LET mid == (lo + hi + 1) \div 2
         IN  IF RatLeq(RatOfInt(mid), x) THEN RatFloorIn(x, mid, hi)
             ELSE RatFloorIn(x, lo, mid - 1)

\* the value x truncated toward zero, for |x| < TruncSpan
TruncSpan == 1024 * 1024

RatTrunc(x) ==
    IF RatSign(x) >= 0 THEN RatFloorIn(x, 0, TruncSpan)
    ELSE -RatFloorIn(RatNeg(x), 0, TruncSpan)

RECURSIVE IPow(_, _)
IPow(a, k) == IF k = 0 THEN 1 ELSE a * IPow(a, k - 1)

---------------------------------------------------------------------------
(* Matrices are sequences of rows; an m x 0 matrix is m empty rows and a   *)
(* 0 x n matrix is the empty sequence.                                     *)

RECURSIVE RatSum(_)
RatSum(s) == IF s = <<>> THEN RatZero ELSE RatAdd(s[1], RatSum(Tail(s)))

MatMul(A, B, cols) ==
    [i \in 1..Len(A) |->
        [c \in 1..cols |-> RatSum([j \in 1..Len(B) |-> RatMul(A[i][j], B[j][c])])]]

DropAt(s, j) == [k \in 1..(Len(s) - 1) |-> IF k < j THEN s[k] ELSE s[k + 1]]

Minor(A, j) == [i \in 1..(Len(A) - 1) |-> DropAt(A[i + 1], j)]

RECURSIVE Det(_)
Det(A) ==
    IF Len(A) = 0 THEN RatOne
    ELSE IF Len(A) = 1 THEN A[1][1]
    ELSE RatSum([j \in 1..Len(A) |->
            IF RatIsZero(A[1][j]) THEN RatZero
            ELSE IF j % 2 = 1 THEN RatMul(A[1][j], Det(Minor(A, j)))
            ELSE RatNeg(RatMul(A[1][j], Det(Minor(A, j))))])

ReplaceCol(A, j, b) ==
    [i \in 1..Len(A) |-> [k \in 1..Len(A) |-> IF k = j THEN b[i] ELSE A[i][k]]]

---------------------------------------------------------------------------
(* Bounds of the inputs.                                                   *)

MaxH == 2            \* rows of the greyscale map
MaxW == 2            \* columns of the greyscale map
MaxSamples == 2      \* samples in D

\* The model keeps intensities that are multiples of GreyStep, so that the
\* intensity factor of the kernel is a power of one rational (see kernel).
GreyStep == 256 \div 4

Channels == 3

---------------------------------------------------------------------------
(* Inputs.                                                                 *)

\* An 8-bit greyscale map as RGB_to_greyscale leaves it (uint8, H x W):
\* g[r+1][c+1] is the intensity at (row r, col c).
GreyMap(h, w, g0, dr, dc) ==
    [r \in 1..h |-> [c \in 1..w |-> (g0 + (r - 1) * dr + (c - 1) * dc) % 256]]

GreyMaps(h, w) ==
    {GreyMap(h, w, 3 * GreyStep, dr, dc) : dr \in {0, GreyStep}, dc \in {0, 2 * GreyStep}}

\* The colour of a sample is the colour of the source image at its
\* position, as get_D reads it; the source image is a two-colour chequerboard.
SourceColour(r, c) == IF (r + c) % 2 = 0 THEN <<255, 0, 64>> ELSE <<0, 255, 10>>

Sample(pos) == <<pos[1], pos[2]>> \o SourceColour(pos[1], pos[2])

\* the positions samples are drawn at: the corners of the grid
Corners(h, w) == {0, h - 1} \X {0, w - 1}

\* row-major order, equal positions allowed
PosLeq(a, b) == a[1] < b[1] \/ (a[1] = b[1] /\ a[2] <= b[2])

RECURSIVE PosSeqs(_, _)
PosSeqs(P, n) ==
    IF n = 0 THEN {<<>>}
    ELSE LET shorter == PosSeqs(P, n - 1)
         IN  shorter \cup
             {Append(s, a) : s \in {t \in shorter : Len(t) = n - 1},
                             a \in P}

SortedPosSeqs(P, n) ==
    {s \in PosSeqs(P, n) : \A i \in 1..(Len(s) - 1) : PosLeq(s[i], s[i + 1])}

\* positions outside the grid: one step past each edge, and one past the
\* range numpy accepts as an index from the far edge
OutPositions(h, w) ==
    {<<-1, 0>>, <<0, -1>>, <<h, 0>>, <<0, w>>, <<-h - 1, 0>>, <<0, -w - 1>>}

SampleSets(h, w) ==
    {[i \in 1..Len(s) |-> Sample(s[i])] : s \in SortedPosSeqs(Corners(h, w), MaxSamples)}
    \cup {<<Sample(a)>> : a \in OutPositions(h, w)}
    \cup {<<Sample(<<0, 0>>), Sample(a)>> : a \in {<<-1, 0>>, <<h, 0>>}}

\* Kernel parameters.  A scale sig is kept as its sign and the value
\* base = exp(-1/(sig^2 * c)) in (0,1) it gives the Gaussian profile, a
\* rational <<n, d>>; c = H^2 + W^2 for sig1 and c = (255/GreyStep)^(2p)
\* for sig2.  p is a rational <<n, d>> with 2p a natural number.
Sig(sgn, n, d) == [sgn |-> sgn, base |-> <<n, d>>]

\* For the Wendland profile, which is a polynomial in r, a scale sig is kept
\* as its sign and the rational inv = 1/(|sig| * sqrt(c)), c as above.
SigW(sgn, n, d) == [sgn |-> sgn, inv |-> <<n, d>>]

Kinds == {"gaussian", "wendland"}

\* The third set is a kernel about as wide as recolorise's defaults make it
\* (sig1 = 300 gives base = 1 - 1.4e-6 on a 2 x 2 grid).
WideBaseDen == 1024 * 1024

ValidParams ==
    { [sig1 |-> Sig(1, 1, 2), sig2 |-> Sig(1, 1, 2), p |-> <<1, 2>>],
      [sig1 |-> Sig(1, 3, 4), sig2 |-> Sig(1, 3, 4), p |-> <<1, 1>>],
      [sig1 |-> Sig(1, WideBaseDen - 1, WideBaseDen), sig2 |-> Sig(1, 1, 2), p |-> <<1, 2>>] }

InvalidParams ==
    { [sig1 |-> Sig(-1, 1, 2), sig2 |-> Sig(1, 1, 2), p |-> <<1, 2>>],
      [sig1 |-> Sig(1, 1, 2), sig2 |-> Sig(-1, 1, 2), p |-> <<1, 2>>],
      [sig1 |-> Sig(1, 1, 2), sig2 |-> Sig(1, 1, 2), p |-> <<0, 1>>] }

\* parameter sets for the Wendland profile: a support of half a pixel
\* (sig1 * diagonal = 1/2) and one of four pixels
WendlandParams ==
    { [sig1 |-> SigW(1, 2, 1), sig2 |-> SigW(1, 1, 2), p |-> <<1, 1>>],
      [sig1 |-> SigW(1, 1, 4), sig2 |-> SigW(1, 1, 4), p |-> <<1, 2>>] }

ParamsOf(kind) == IF kind = "gaussian" THEN ValidParams ELSE WendlandParams

\* compute_as's default delta, 2*1e-4, as the rational DeltaNum / DeltaDen
DeltaNum == 2
DeltaDen == 10000
DefaultDelta == <<DeltaNum, DeltaDen>>

\* the deltas a direct caller of compute_as passes
Deltas == {DefaultDelta, <<0, 1>>, <<1, 1>>, <<-1, 4>>}

ParamsValid(kp, dl) ==
    /\ kp.sig1.sgn > 0
    /\ kp.sig2.sgn > 0
    /\ kp.p[1] > 0
    /\ kp.p[1] <= 2 * kp.p[2]
    /\ dl[1] >= 0

---------------------------------------------------------------------------
(* src/recolorizer.py                                                      *)

\* phi_gaussian evaluated one unit of r*r further out
phi_gaussian_shifted(sig, k) == RatPow(Rat(sig.base[1], sig.base[2]), k + 1)

\* phi_gaussian(r) = exp(-r*r), for r*r = k / (sig^2 * c): base^k with
\* base = exp(-1/(sig^2 * c)).  The sign of sig is squared away.
phi_gaussian(sig, k) == RatPow(Rat(sig.base[1], sig.base[2]), k)

\* A square root is kept to SqrtScale steps per unit, rounded down (float64
\* rounds it too, more finely).
SqrtScale == 32 * 32

RECURSIVE ISqrtIn(_, _, _)
ISqrtIn(n, lo, hi) ==
    IF lo = hi THEN lo
    ELSE LET mid == (lo + hi + 1) \div 2
         IN  IF mid * mid <= n THEN ISqrtIn(n, mid, hi) ELSE ISqrtIn(n, lo, mid - 1)

\* the radius r with r*r = k / (sig^2 * c)
Radius(sig, k) ==
    Rat(sig.sgn * sig.inv[1] * ISqrtIn(k * SqrtScale * SqrtScale, 0, (k + 1) * SqrtScale),
        sig.inv[2] * SqrtScale)

\* phi_wendland without the positive part
phi_wendland_unclamped(sig, k) ==
    LET r == Radius(sig, k)
    IN  RatMul(RatPow(RatSub(RatOne, r), 4), RatAdd(RatMul(RatOfInt(4), r), RatOne))

\* phi_wendland(r) = np.power(np.maximum(1 - r, 0), 4) * (4*r + 1)
phi_wendland(sig, k) ==
    LET r == Radius(sig, k)
        rest == RatSub(RatOne, r)
        positive == IF RatSign(rest) > 0 THEN rest ELSE RatZero
    IN  RatMul(RatPow(positive, 4), RatAdd(RatMul(RatOfInt(4), r), RatOne))

\* phi(input): the profile the caller of kernel() passed
ApplyPhi(kind, sig, k) ==
    IF kind = "gaussian" THEN phi_gaussian(sig, k) ELSE phi_wendland(sig, k)

\* cdist(x, y, "euclidean")[i][j] squared
Dist2(a, b) == (a[1] - b[1]) * (a[1] - b[1]) + (a[2] - b[2]) * (a[2] - b[2])

\* numpy integer indexing along an axis of length n: a negative index
\* counts from the far end, anything outside -n..n-1 raises IndexError
IndexOk(i, n) == -n <= i /\ i < n
IndexOf(i, n) == IF i < 0 THEN i + n ELSE i

GreyAt(g, pos) == g[IndexOf(pos[1], Len(g)) + 1][IndexOf(pos[2], Len(g[1])) + 1]

\* greyscale_x[:, None] - greyscale_y[None, :] on uint8 operands
u8_sub(a, b) == (a - b) % 256

\* np.abs of a uint8 value
u8_abs(a) == a

\* |g(x) - g(y)| as kernel() computes it
IntensityDiff(gx, gy) == u8_abs(u8_sub(gx, gy))

TwoP(p) == (2 * p[1]) \div p[2]

\* (d ** p / (sig2 * 255 ** p)) ^ 2 in units of 1/(sig2^2 * (255/GreyStep)^(2p)):
\* (d / GreyStep) ^ (2p); numpy's 0 ** 0 is 1.
IntensityUnits(d, p) == IPow(d \div GreyStep, TwoP(p))

\* K[i][j] of kernel(phi, X, Y, greyscale_map, sig1, sig2, p)
KernelEntry(kind, a, b, g, kp) ==
    RatMul(ApplyPhi(kind, kp.sig1, Dist2(a, b)),
           ApplyPhi(kind, kp.sig2,
                    IntensityUnits(IntensityDiff(GreyAt(g, a), GreyAt(g, b)), kp.p)))

kernel_raises(X, Y, g) ==
    \E i \in 1..(Len(X) + Len(Y)) :
        LET a == IF i <= Len(X) THEN X[i] ELSE Y[i - Len(X)]
        IN  ~(IndexOk(a[1], Len(g)) /\ IndexOk(a[2], Len(g[1])))

\* The (m, n) matrix K = phi(input1) * phi(input2).  The Gaussian entries
\* are written over one denominator (that of the smallest entry), which
\* changes no value.
MaxOf(S) == IF S = {} THEN 0 ELSE CHOOSE k \in S : \A l \in S : l <= k

GaussianKernel(X, Y, g, kp) ==
    LET k1(a, b) == Dist2(a, b)
        k2(a, b) == IntensityUnits(IntensityDiff(GreyAt(g, a), GreyAt(g, b)), kp.p)
        K1 == MaxOf({k1(X[i], Y[j]) : i \in 1..Len(X), j \in 1..Len(Y)})
        K2 == MaxOf({k2(X[i], Y[j]) : i \in 1..Len(X), j \in 1..Len(Y)})
        d1 == BigOfInt(kp.sig1.base[2])
        d2 == BigOfInt(kp.sig2.base[2])
    IN  [i \in 1..Len(X) |-> [j \in 1..Len(Y) |->
            RatExpand(KernelEntry("gaussian", X[i], Y[j], g, kp),
                      BigMul(BigPow(d1, K1 - k1(X[i], Y[j])),
                             BigPow(d2, K2 - k2(X[i], Y[j]))))]]

\* kernel with the matrix returned as (n, m)
kernel_transposed(kind, X, Y, g, kp) ==
    [j \in 1..Len(Y) |-> [i \in 1..Len(X) |-> KernelEntry(kind, X[i], Y[j], g, kp)]]

kernel(kind, X, Y, g, kp) ==
    IF kind = "gaussian" THEN GaussianKernel(X, Y, g, kp)
    ELSE [i \in 1..Len(X) |-> [j \in 1..Len(Y) |-> KernelEntry(kind, X[i], Y[j], g, kp)]]

\* D[:, :2] and D[:, 2:]
PositionsOf(d) == [i \in 1..Len(d) |-> <<d[i][1], d[i][2]>>]
ColoursOf(d) == [i \in 1..Len(d) |-> <<d[i][3], d[i][4], d[i][5]>>]

\* Ridge with the regularization left out, and with it not scaled by n
Ridge_absent(dl, n) == Rat(0, dl[2])
Ridge_unscaled(dl, n) == Rat(dl[1], dl[2])

\* delta * n, the weight of np.eye(n) in the system matrix
Ridge(dl, n) == Rat(dl[1] * n, dl[2])

\* KD + delta * n * np.eye(n)
SystemMatrix(K, dl, n) ==
    [i \in 1..n |-> [j \in 1..n |->
        IF i = j THEN RatAdd(K[i][j], Ridge(dl, n))
        ELSE RatExpand(K[i][j], BigOfInt(dl[2]))]]

\* np.linalg.solve(A, f_s): LinAlgError on a singular matrix, else the
\* unique solution, one column per channel
solve_raises(A) == RatIsZero(Det(A))

\* solve handing back its right-hand side as the solution
solve_identity(A, f) == [j \in 1..Len(A) |-> [c \in 1..Channels |-> RatOfInt(f[j][c])]]

solve(A, f) ==
    LET dt == Det(A)
        rhs(c) == [i \in 1..Len(A) |-> RatExpand(RatOfInt(f[i][c]), A[i][i].d)]
    IN  [j \in 1..Len(A) |-> [c \in 1..Channels |->
            RatDiv(Det(ReplaceCol(A, j, rhs(c))), dt)]]

\* np.linalg.solve with the solution left in its right-hand side, as LAPACK's
\* gesv leaves it (D is an int64 array)
rhs_after_solve_overwritten(f, a) ==
    [i \in 1..Len(f) |-> <<RatTrunc(a[i][1]), RatTrunc(a[i][2]), RatTrunc(a[i][3])>>]

\* np.linalg.solve works on a copy of its right-hand side
rhs_after_solve(f, a) == f

\* D with f in its columns 2..4
WithColours(d, f) == [i \in 1..Len(d) |-> <<d[i][1], d[i][2]>> \o f[i]]

\* get_Fs with a sum that runs on from one row into the next
get_Fs_accumulating(Ko, a) ==
    LET M == MatMul(Ko, a, Channels)
    IN  [i \in 1..Len(M) |-> [c \in 1..Channels |-> RatSum([k \in 1..i |-> M[k][c]])]]

\* get_Fs: Komega @ a_s
get_Fs(Ko, a) == MatMul(Ko, a, Channels)

\* np.meshgrid(arange(height), arange(width), indexing="ij") flattened and
\* stacked: the grid positions in row-major order
Pairs(h, w) == [k \in 1..(h * w) |-> <<(k - 1) \div w, (k - 1) % w>>]

\* the evaluation matrix built with a spatial scale of its own instead of
\* the caller's sig1
EvaluationKernel_rescaled(kind, d, g, kp) ==
    kernel(kind, Pairs(Len(g), Len(g[1])), PositionsOf(d), g,
           [kp EXCEPT !.sig1 = Sig(kp.sig1.sgn, 1, 4)])

\* recolorise, lines 135-138: kernel(phi, pairs, D[:, :2], greyscale_array,
\* **kernel_params), the phi and kernel_params compute_as was called with
EvaluationKernel(kind, d, g, kp) ==
    kernel(kind, Pairs(Len(g), Len(g[1])), PositionsOf(d), g, kp)

\* np_clip with the clipping left out
np_clip_absent(v, lo, hi) == v

\* np.clip(v, 0, 255)
np_clip(v, lo, hi) ==
    IF RatLt(v, RatOfInt(lo)) THEN RatOfInt(lo)
    ELSE IF RatLt(RatOfInt(hi), v) THEN RatOfInt(hi)
    ELSE v

\* np.uint8(v) of a float: truncation toward zero, then the low 8 bits
np_uint8(v) ==
    IF RatSign(v) >= 0 /\ RatLt(v, RatOfInt(256)) THEN RatFloorIn(v, 0, 255)
    ELSE RatTrunc(v) % 256

\* the reshape filling the grid column by column
Reshape_column_major(F, h, w) == [r \in 1..h |-> [c \in 1..w |-> F[(c - 1) * h + r]]]

\* Fs.reshape(height, width, 3)[r][c]
Reshape(F, h, w) == [r \in 1..h |-> [c \in 1..w |-> F[(r - 1) * w + c]]]

---------------------------------------------------------------------------
(* One call, as a state machine.  The caller invokes recolorise(D,         *)
(* greyscale_image, sig1, sig2, p) or compute_as(D, greyscale, phi, delta, *)
(* sig1, sig2, p) directly, or one of the profiles phi on an array; each   *)
(* stage of the call is one step.  The same variables carry a call of one  *)
(* of the helpers of generalfunctions.py and greyscaleconversion.py, and   *)
(* the window of gui.py with the callbacks the user triggers.              *)

VARIABLES
    entry,            \* the function called: "recolorise", "compute_as", "phi",
                      \* the name of a helper, or "gui" for the window
    D,                \* the sample set: rows <<row, col, R, G, B>>
    greyscale_array,  \* the greyscale map (line 127)
    kernel_params,    \* sig1, sig2, p
    delta,            \* the delta compute_as runs with
    phi,              \* the profile the call uses (line 129, or the argument)
    requested,        \* what the caller wants: kernelKind, delta, cancel
    radii,            \* the argument of a profile called on its own: r*r, in
                      \* units of 1/(sig1^2 * c), for each element of r
    values,           \* the array the profile returns
    pc,               \* the stage reached
    KD,               \* the training kernel matrix (line 89)
    a_s,              \* the coefficients (line 94)
    Komega,           \* the evaluation kernel matrix (line 138)
    Fs,               \* the prediction (line 140), clipped at line 145
    F_img,            \* the image returned (line 147)
    raised,           \* the exception that ended the call, or "none"
    stages,           \* the stages that ran, in order
    cost,             \* the time each stage of this call takes, in ticks
    clock,            \* time.time(), in ticks
    start,            \* recolorise's start (line 133)
    total_time,       \* recolorise's total_time (line 143)
    args,             \* the arguments of a helper called on its own
    result,           \* what the helper returns
    self,             \* the RecolorizerApp object: its fields and Tk variables
    callback          \* the callback the window ran last and how it ended

vars == <<entry, D, greyscale_array, kernel_params, delta, phi, requested,
          radii, values, pc, KD, a_s, Komega, Fs, F_img, raised, stages,
          cost, clock, start, total_time, args, result, self, callback>>

arguments == <<entry, greyscale_array, kernel_params, delta, phi, requested, cost>>

\* a helper called on its own
helper == <<args, result>>

\* the window
gui == <<self, callback>>

\* what no stage of a recolorization touches
elsewhere == <<helper, gui>>

timer == <<start, total_time>>

inputs == <<arguments, D>>

profile == <<radii, values>>

None == "none"

\* the value of a variable the call has not assigned yet
Unset == <<>>

Height == Len(greyscale_array)
Width == Len(greyscale_array[1])

\* a caller content with the Gaussian profile and the default delta
DefaultRequest == [kernelKind |-> "gaussian", delta |-> DefaultDelta, cancel |-> FALSE]

\* nothing of the call has run
Fresh ==
    /\ pc = "start"
    /\ KD = Unset
    /\ a_s = Unset
    /\ Komega = Unset
    /\ Fs = Unset
    /\ F_img = Unset
    /\ raised = None
    /\ stages = <<>>
    /\ values = Unset
    /\ clock = 0
    /\ start = Unset
    /\ total_time = Unset

\* no helper is called on its own and no window is open
Alone ==
    /\ args = Unset
    /\ result = Unset
    /\ self = Unset
    /\ callback = Unset

Stages ==
    {"BuildTrainingKernel", "Solve", "BuildEvaluationKernel", "Predict", "Clip", "Emit"}

\* every stage takes one tick
UnitCost == [s \in Stages |-> 1]

Init ==
    /\ greyscale_array \in GreyMaps(MaxH, MaxW)
    /\ D \in SampleSets(MaxH, MaxW)
    /\ phi = "gaussian"
    /\ \/ /\ entry = "recolorise"
          /\ kernel_params \in ValidParams \cup InvalidParams
          /\ delta = DefaultDelta
          /\ requested = DefaultRequest
       \/ /\ entry = "compute_as"
          /\ kernel_params \in ValidParams
          /\ delta \in Deltas
          /\ requested = [kernelKind |-> phi, delta |-> delta, cancel |-> FALSE]
    /\ radii = Unset
    /\ cost = UnitCost
    /\ Fresh
    /\ Alone

\* Raise with the exception caught and the call carrying on
Raise_swallowed(e) ==
    /\ pc' = pc
    /\ raised' = e

\* an exception leaves the call: nothing in compute_as or recolorise catches it
Raise(e) ==
    /\ pc' = "raised"
    /\ raised' = e

\* compute_as, line 89: KD = kernel(phi, D[:, :2], D[:, :2], greyscale)
BuildTrainingKernel ==
    /\ pc = "start"
    /\ IF kernel_raises(PositionsOf(D), PositionsOf(D), greyscale_array)
       THEN /\ Raise("IndexError")
            /\ UNCHANGED <<KD, stages>>
       ELSE /\ KD' = kernel(phi, PositionsOf(D), PositionsOf(D), greyscale_array, kernel_params)
            /\ stages' = Append(stages, "BuildTrainingKernel")
            /\ pc' = "KD"
            /\ UNCHANGED raised
    /\ clock' = clock + cost["BuildTrainingKernel"]
    /\ UNCHANGED <<inputs, profile, a_s, Komega, Fs, F_img, timer, elsewhere>>

\* compute_as, lines 91-94: a_s = np.linalg.solve(KD + delta*n*np.eye(n), f_s).
\* f_s is a view of columns 2..4 of D, so what the solve leaves in its
\* right-hand side is what it leaves in D.
Solve ==
    /\ pc = "KD"
    /\ LET A == SystemMatrix(KD, delta, Len(ColoursOf(D)))
       IN  IF solve_raises(A)
           THEN /\ Raise("LinAlgError")
                /\ UNCHANGED <<a_s, stages, D>>
           ELSE /\ a_s' = solve(A, ColoursOf(D))
                /\ D' = WithColours(D, rhs_after_solve(ColoursOf(D), a_s'))
                /\ stages' = Append(stages, "Solve")
                /\ pc' = "solved"
                /\ UNCHANGED raised
    /\ clock' = clock + cost["Solve"]
    /\ UNCHANGED <<arguments, profile, KD, Komega, Fs, F_img, timer, elsewhere>>

\* compute_as, line 96, called directly: return a_s
ReturnCoefficients ==
    /\ pc = "solved"
    /\ entry = "compute_as"
    /\ pc' = "returned"
    /\ UNCHANGED <<inputs, profile, KD, a_s, Komega, Fs, F_img, raised, stages,
                   clock, timer, elsewhere>>

\* recolorise, lines 133-138: start = time.time(), then
\* Komega = kernel(phi, pairs, D[:, :2], ...)
BuildEvaluationKernel ==
    /\ pc = "solved"
    /\ entry = "recolorise"
    /\ start' = clock
    /\ clock' = clock + cost["BuildEvaluationKernel"]
    /\ LET pairs == Pairs(Height, Width)
       IN  IF kernel_raises(pairs, PositionsOf(D), greyscale_array)
           THEN /\ Raise("IndexError")
                /\ UNCHANGED <<Komega, stages>>
           ELSE /\ Komega' = EvaluationKernel(phi, D, greyscale_array, kernel_params)
                /\ stages' = Append(stages, "BuildEvaluationKernel")
                /\ pc' = "Komega"
                /\ UNCHANGED raised
    /\ UNCHANGED <<inputs, profile, KD, a_s, Fs, F_img, total_time, elsewhere>>

\* recolorise, lines 142-143: total_time = end - start
Elapsed_unanchored(start_, end_) == end_

Elapsed(start_, end_) == end_ - start_

\* recolorise, lines 140-143: Fs = get_Fs(Komega, a_s).reshape(height, width, 3),
\* then end = time.time() and total_time = end - start
Predict ==
    /\ pc = "Komega"
    /\ Fs' = Reshape(get_Fs(Komega, a_s), Height, Width)
    /\ stages' = Append(stages, "Predict")
    /\ pc' = "predicted"
    /\ clock' = clock + cost["Predict"]
    /\ total_time' = Elapsed(start, clock')
    /\ UNCHANGED <<inputs, profile, KD, a_s, Komega, F_img, raised, start, elsewhere>>

\* recolorise, line 145: Fs = np.clip(Fs, 0, 255)
Clip ==
    /\ pc = "predicted"
    /\ Fs' = [r \in 1..Height |-> [c \in 1..Width |-> [ch \in 1..Channels |->
                np_clip(Fs[r][c][ch], 0, 255)]]]
    /\ stages' = Append(stages, "Clip")
    /\ pc' = "clipped"
    /\ clock' = clock + cost["Clip"]
    /\ UNCHANGED <<inputs, profile, KD, a_s, Komega, F_img, raised, timer, elsewhere>>

\* recolorise, lines 147-149: F_img = Image.fromarray(np.uint8(Fs)); return
Emit ==
    /\ pc = "clipped"
    /\ F_img' = [r \in 1..Height |-> [c \in 1..Width |-> [ch \in 1..Channels |->
                np_uint8(Fs[r][c][ch])]]]
    /\ stages' = Append(stages, "Emit")
    /\ pc' = "emitted"
    /\ clock' = clock + cost["Emit"]
    /\ UNCHANGED <<inputs, profile, KD, a_s, Komega, Fs, raised, timer, elsewhere>>

\* phi_gaussian(r) or phi_wendland(r) called on the array r
ApplyProfile ==
    /\ pc = "start"
    /\ entry = "phi"
    /\ values' = [i \in 1..Len(radii) |-> ApplyPhi(phi, kernel_params.sig1, radii[i])]
    /\ pc' = "returned"
    /\ UNCHANGED <<inputs, radii, KD, a_s, Komega, Fs, F_img, raised, stages,
                   clock, timer, elsewhere>>

Next ==
    \/ BuildTrainingKernel
    \/ Solve
    \/ ReturnCoefficients
    \/ BuildEvaluationKernel
    \/ Predict
    \/ Clip
    \/ Emit

Spec == Init /\ [][Next]_vars

---------------------------------------------------------------------------
(* Calls on a one-row image of MaxSamples pixels: a single sample at each  *)
(* position, and the dense sample set that covers every position once;    *)
(* both profiles for compute_as; callers that want another profile or     *)
(* delta than recolorise's, or that ask for cancellation.                  *)

RowGreyMaps == {<<row>> : row \in [1..MaxSamples -> {0, 3 * GreyStep}]}

DenseSamples(h, w) == [k \in 1..(h * w) |-> Sample(Pairs(h, w)[k])]

RowSampleSets ==
    {DenseSamples(1, MaxSamples)} \cup {<<Sample(<<0, c>>)>> : c \in 0..(MaxSamples - 1)}

Requests ==
    { DefaultRequest,
      [kernelKind |-> "wendland", delta |-> <<0, 1>>, cancel |-> FALSE],
      [kernelKind |-> "gaussian", delta |-> DefaultDelta, cancel |-> TRUE] }

InitRow ==
    /\ greyscale_array \in RowGreyMaps
    /\ D \in RowSampleSets
    /\ \/ /\ entry = "recolorise"
          /\ phi = "gaussian"
          /\ kernel_params \in ValidParams
          /\ delta = DefaultDelta
          /\ requested \in Requests
       \/ /\ entry = "compute_as"
          /\ phi \in Kinds
          /\ kernel_params \in ParamsOf(phi)
          /\ delta \in Deltas
          /\ requested = [kernelKind |-> phi, delta |-> delta, cancel |-> FALSE]
    /\ radii = Unset
    /\ cost = UnitCost
    /\ Fresh
    /\ Alone

SpecRow == InitRow /\ [][Next]_vars

---------------------------------------------------------------------------
(* A profile called on its own, on arrays of up to MaxSamples elements     *)
(* with r*r up to MaxRadius2 units.                                        *)

MaxRadius2 == 16

InitPhi ==
    /\ entry = "phi"
    /\ phi \in Kinds
    /\ kernel_params \in ParamsOf(phi)
    /\ radii \in UNION {[1..n -> 0..MaxRadius2] : n \in 0..MaxSamples}
    /\ D = <<>>
    /\ greyscale_array = <<>>
    /\ delta = DefaultDelta
    /\ requested = [kernelKind |-> phi, delta |-> delta, cancel |-> FALSE]
    /\ cost = UnitCost
    /\ Fresh
    /\ Alone

NextPhi == ApplyProfile

SpecPhi == InitPhi /\ [][NextPhi]_vars

---------------------------------------------------------------------------
(* Calls on a grid that is wider than it is high, MaxH x (MaxW + 1), with  *)
(* stages that take different times.                                       *)

MaxTicks == 3        \* the longest a stage takes

\* one stage takes longer than the others
CostProfiles ==
    {UnitCost} \cup {[UnitCost EXCEPT ![s] = t] : s \in Stages, t \in 2..MaxTicks}

GridH == MaxH
GridW == MaxW + 1

GridSampleSets ==
    { <<Sample(<<0, 0>>), Sample(<<GridH - 1, GridW - 1>>)>>,
      <<Sample(<<0, GridW - 1>>)>>,
      <<Sample(<<0, 1>>), Sample(<<GridH - 1, 0>>)>> }

GridParams ==
    { [sig1 |-> Sig(1, 1, 2), sig2 |-> Sig(1, 1, 2), p |-> <<1, 2>>],
      [sig1 |-> Sig(1, 3, 4), sig2 |-> Sig(1, 3, 4), p |-> <<1, 1>>] }

InitGrid ==
    /\ greyscale_array \in GreyMaps(GridH, GridW)
    /\ D \in GridSampleSets
    /\ phi = "gaussian"
    /\ entry \in {"recolorise", "compute_as"}
    /\ kernel_params \in GridParams
    /\ delta = DefaultDelta
    /\ requested = DefaultRequest
    /\ radii = Unset
    /\ cost \in CostProfiles
    /\ Fresh
    /\ Alone

SpecGrid == InitGrid /\ [][Next]_vars

---------------------------------------------------------------------------
(* The helpers of generalfunctions.py, greyscaleconversion.py and func.py, *)
(* each called on its own: entry names the helper, args holds its          *)
(* arguments and result what it returns.  An RGB image is a sequence of    *)
(* rows of pixels <<R, G, B>>, as np.asarray(img) gives it (uint8,         *)
(* H x W x 3); a colorpoint mask is an H x W x 3 array of booleans.        *)

MaxPixels == 4       \* pixels of an image handed to get_D or random_bool_array
MaxSide == 4         \* width and height handed to uniform_bool_array
MaxInterval == 3     \* w_interval and h_interval

RECURSIVE Repeat(_, _)
\* the Python list s * n
Repeat(s, n) == IF n <= 0 THEN <<>> ELSE s \o Repeat(s, n - 1)

\* np.stack((m, m, m), 2)
Stack3(m) == [r \in 1..Len(m) |-> [c \in 1..Len(m[r]) |-> <<m[r][c], m[r][c], m[r][c]>>]]

\* a[:, :, k]
Plane(a, k) == [r \in 1..Len(a) |-> [c \in 1..Len(a[r]) |-> a[r][c][k]]]

\* get_bands: the red, green and blue planes of np.asarray(img)
get_bands(img) == <<Plane(img, 1), Plane(img, 2), Plane(img, 3)>>

\* uint8 + uint8
u8_add(a, b) == (a + b) % 256

Max2(a, b) == IF a >= b THEN a ELSE b
Min2(a, b) == IF a <= b THEN a ELSE b

\* one element of grey_float, as <<numerator, denominator>>: the sums are
\* sums of uint8 arrays, the division is a float division
GreyFloat(r, g, b, method) ==
    IF method = "avg" THEN <<u8_add(u8_add(r, g), b), 3>>
    ELSE <<u8_add(Max2(Max2(r, b), g), Min2(Min2(r, b), g)), 2>>

\* convert_bands_to_greyscale for the methods "avg" and "lig":
\* np.uint8(grey_float) stacked three times
convert_bands_to_greyscale(red, green, blue, method) ==
    Stack3([r \in 1..Len(red) |-> [c \in 1..Len(red[r]) |->
        LET x == GreyFloat(red[r][c], green[r][c], blue[r][c], method)
        IN  x[1] \div x[2]]])

\* func.py, greyscale(array, method) for the methods 'avg' and 'lig': the
\* array of floats, each as <<numerator, denominator>>
greyscale(array, method) ==
    [r \in 1..Len(array) |-> [c \in 1..Len(array[r]) |->
        GreyFloat(array[r][c][1], array[r][c][2], array[r][c][3], method)]]

\* options drawn without replacement: the m draws are distinct indices
\* into the n options
Draws_with_replacement(n, m) == [1..m -> 1..n]

Draws(n, m) == {f \in [1..m -> 1..n] : \A i, j \in 1..m : f[i] = f[j] => i = j}

\* random_bool_array, with draw the indices np.random.choice picks
random_bool_array(width, height, number_of_points, draw) ==
    LET options == Repeat(<<TRUE>>, number_of_points)
                   \o Repeat(<<FALSE>>, height * width - number_of_points)
        boolean_matrix ==
            [r \in 1..height |-> [c \in 1..width |-> options[draw[(r - 1) * width + c]]]]
    IN  Stack3(boolean_matrix)

\* the base element with its 1 in front of the zeros
base_element_leading(interval) == <<1>> \o Repeat(<<0>>, interval)

\* [0] * interval + [1]
base_element(interval) == Repeat(<<0>>, interval) \o <<1>>

\* [1] + base_element * ((length - 1) // (interval + 1)) + trailing zeros
base_vector(length, interval) ==
    <<1>> \o Repeat(base_element(interval), (length - 1) \div (interval + 1))
          \o Repeat(<<0>>, (length - 1) % (interval + 1))

uniform_bool_array(width, height, w_interval, h_interval) ==
    LET w_base_vector == base_vector(width, w_interval)
        h_base_vector == base_vector(height, h_interval)
        boolean_matrix ==
            [r \in 1..Len(h_base_vector) |-> [c \in 1..Len(w_base_vector) |->
                h_base_vector[r] * w_base_vector[c] # 0]]
        stack == Stack3(boolean_matrix)
    IN  [r \in 1..Min2(height, Len(stack)) |->
            [c \in 1..Min2(width, Len(stack[r])) |-> stack[r][c]]]

\* gui.py, _count_uniform_colorpoints
count_uniform_colorpoints(width, height, w_interval, h_interval) ==
    (((width - 1) \div (w_interval + 1)) + 1) * (((height - 1) \div (h_interval + 1)) + 1)

\* a.reshape(-1) of an H x W array
Flatten(a) ==
    LET w == Len(a[1])
    IN  [k \in 1..(Len(a) * w) |-> a[((k - 1) \div w) + 1][((k - 1) % w) + 1]]

RECURSIVE Compress(_, _)
\* the elements of a where b is True, in order
Compress(a, b) ==
    IF a = <<>> THEN <<>>
    ELSE IF b[1] THEN <<a[1]>> \o Compress(Tail(a), Tail(b))
    ELSE Compress(Tail(a), Tail(b))

\* a[b] for an H x W array a and an H x W boolean array b
MaskIndex(a, b) == Compress(Flatten(a), Flatten(b))

\* get_D with the columns (x, y, R, G, B), x the column
get_D_xy(img, colorpoints_coords) ==
    LET boolean_array == Plane(colorpoints_coords, 1)
        xy == MaskIndex([r \in 1..Len(img) |-> [c \in 1..Len(img[1]) |-> <<c - 1, r - 1>>]],
                        boolean_array)
        rgb == MaskIndex(img, boolean_array)
    IN  [k \in 1..Len(xy) |-> xy[k] \o rgb[k]]

get_D(img, colorpoints_coords) ==
    LET height == Len(img)
        width == Len(img[1])
        bands == get_bands(img)
        boolean_array == Plane(colorpoints_coords, 1)
        row_array == [r \in 1..height |-> [c \in 1..width |-> r - 1]]
        col_array == [r \in 1..height |-> [c \in 1..width |-> c - 1]]
        row == MaskIndex(row_array, boolean_array)
        col == MaskIndex(col_array, boolean_array)
        r == MaskIndex(bands[1], boolean_array)
        g == MaskIndex(bands[2], boolean_array)
        b == MaskIndex(bands[3], boolean_array)
    IN  [k \in 1..Len(row) |-> <<row[k], col[k], r[k], g[k], b[k]>>]

\* np.count_nonzero(mask[:, :, k])
TrueCount(mask, k) ==
    Cardinality({pos \in (1..Len(mask)) \X (1..Len(mask[1])) : mask[pos[1]][pos[2]][k]})

\* a.shape == (height, width, 3)
HasShape(a, height, width) ==
    /\ Len(a) = height
    /\ \A r \in 1..height :
          Len(a[r]) = width /\ \A c \in 1..width : Len(a[r][c]) = 3

\* Inputs of the helpers.
Levels == {0, GreyStep, 2 * GreyStep, 200, 255}

Shapes == {s \in (1..MaxPixels) \X (1..MaxPixels) : s[1] * s[2] <= MaxPixels}

PositionColour(r, c) == <<(200 + 30 * r) % 256, 17 * c, 255 - r - c>>

Images(h, w) ==
    { [r \in 1..h |-> [c \in 1..w |-> SourceColour(r - 1, c - 1)]],
      [r \in 1..h |-> [c \in 1..w |-> PositionColour(r - 1, c - 1)]] }

\* the masks the generators hand on: one H x W plane stacked three times
Masks(h, w) == {Stack3(m) : m \in [1..h -> [1..w -> BOOLEAN]]}

HelperArgs(name) ==
    IF name \in {"convert_bands_to_greyscale", "greyscale"}
    THEN {[pixel |-> <<r, g, b>>, method |-> m] :
              r \in Levels, g \in Levels, b \in Levels, m \in {"avg", "lig"}}
    ELSE IF name = "get_D"
    THEN UNION {{[img |-> i, colorpoints_coords |-> m] :
                    i \in Images(s[1], s[2]), m \in Masks(s[1], s[2])} : s \in Shapes}
    ELSE IF name = "random_bool_array"
    THEN UNION {{[width |-> s[2], height |-> s[1], number_of_points |-> n] :
                    n \in 0..(s[1] * s[2])} : s \in Shapes}
    ELSE {[width |-> w, height |-> h, w_interval |-> wi, h_interval |-> hi] :
              w \in 1..MaxSide, h \in 1..MaxSide,
              wi \in 0..MaxInterval, hi \in 0..MaxInterval}

Helpers ==
    {"convert_bands_to_greyscale", "greyscale", "get_D", "random_bool_array",
     "uniform_bool_array"}

InitHelper ==
    /\ entry \in Helpers
    /\ args \in HelperArgs(entry)
    /\ result = Unset
    /\ self = Unset
    /\ callback = Unset
    /\ D = <<>>
    /\ greyscale_array = <<>>
    /\ phi = "gaussian"
    /\ kernel_params \in {CHOOSE kp \in ValidParams : TRUE}
    /\ delta = DefaultDelta
    /\ requested = DefaultRequest
    /\ radii = Unset
    /\ cost = UnitCost
    /\ Fresh

\* what a call of a helper leaves alone
recolorization ==
    <<inputs, profile, KD, a_s, Komega, Fs, F_img, raised, stages, clock, timer>>

\* the one-pixel arrays of a pixel
Band(v) == <<<<v>>>>

Call_convert_bands_to_greyscale ==
    /\ pc = "start"
    /\ entry = "convert_bands_to_greyscale"
    /\ result' = convert_bands_to_greyscale(Band(args.pixel[1]), Band(args.pixel[2]),
                                            Band(args.pixel[3]), args.method)
    /\ pc' = "returned"
    /\ UNCHANGED <<recolorization, args, gui>>

Call_greyscale ==
    /\ pc = "start"
    /\ entry = "greyscale"
    /\ result' = greyscale(Band(args.pixel), args.method)
    /\ pc' = "returned"
    /\ UNCHANGED <<recolorization, args, gui>>

Call_get_D ==
    /\ pc = "start"
    /\ entry = "get_D"
    /\ result' = get_D(args.img, args.colorpoints_coords)
    /\ pc' = "returned"
    /\ UNCHANGED <<recolorization, args, gui>>

Call_random_bool_array ==
    /\ pc = "start"
    /\ entry = "random_bool_array"
    /\ \E draw \in Draws(Max2(args.number_of_points, args.height * args.width),
                         args.height * args.width) :
          result' = random_bool_array(args.width, args.height,
                                      args.number_of_points, draw)
    /\ pc' = "returned"
    /\ UNCHANGED <<recolorization, args, gui>>

Call_uniform_bool_array ==
    /\ pc = "start"
    /\ entry = "uniform_bool_array"
    /\ result' = uniform_bool_array(args.width, args.height,
                                    args.w_interval, args.h_interval)
    /\ pc' = "returned"
    /\ UNCHANGED <<recolorization, args, gui>>

NextHelper ==
    \/ Call_convert_bands_to_greyscale
    \/ Call_greyscale
    \/ Call_get_D
    \/ Call_random_bool_array
    \/ Call_uniform_bool_array

SpecHelper == InitHelper /\ [][NextHelper]_vars

---------------------------------------------------------------------------
(* The window of gui.py.  self holds the fields of the RecolorizerApp      *)
(* object and the Tk variables behind its controls; each callback of a     *)
(* button, a menu, an entry or the mouse on the source panel is one step.  *)
(* A field that holds an array, an image or a point is Unset while it is   *)
(* None; a field that holds a string is None.  Tk reports an exception     *)
(* that leaves a callback and goes on with the next event, so what the     *)
(* callback assigned before it raised stays.  The texts that only display  *)
(* a count and the layout of the panels are left out.                      *)

\* the number of positional parameters RGB_to_greyscale and
\* generate_mixed_img are defined with
RGB_to_greyscale_parameters == 1
generate_mixed_img_parameters == 2

\* how a call of a function defined with `parameters` positional parameters
\* goes when it is handed `given` positional arguments: Python raises
\* TypeError before the body runs unless the numbers agree
CallOutcome(parameters, given) == IF given # parameters THEN "TypeError" ELSE "called"

\* the files the user can pick in the dialog: an image, a file that is not
\* an image, and "" for a dialog that is cancelled
Files == {"a.png", "notes.txt", ""}

IsImageFile(file_path) == file_path = "a.png"

\* Image.open(file_path).convert("RGB"): an image one pixel high and two wide
ImageOpen(file_path) == [r \in 1..1 |-> [c \in 1..2 |-> SourceColour(r - 1, c - 1)]]

\* what the user types into the entries, and int(text); a text that is not
\* in Numerals makes int raise ValueError
EntryEdits ==
    {<<"random_points_var", "1">>, <<"random_points_var", "abc">>,
     <<"random_points_var", "500">>,
     <<"uniform_w_interval_var", "0">>, <<"uniform_w_interval_var", "-1">>,
     <<"uniform_w_interval_var", "10">>,
     <<"uniform_h_interval_var", "0">>, <<"uniform_h_interval_var", "10">>}

Numerals == {"500", "10", "1", "0", "-1"}

int(text) ==
    CASE text = "500" -> 500
      [] text = "10" -> 10
      [] text = "1" -> 1
      [] text = "0" -> 0
      [] text = "-1" -> -1

ColorpointModes == {"Random", "Uniform", "Manual"}

GreyscaleMethods == {"Luminosity", "Average", "Luminance", "Lightness"}

\* _get_selected_greyscale_method_code
get_selected_greyscale_method_code(s) ==
    CASE s.greyscale_method_var = "Luminosity" -> "nor"
      [] s.greyscale_method_var = "Average" -> "avg"
      [] s.greyscale_method_var = "Luminance" -> "lum"
      [] s.greyscale_method_var = "Lightness" -> "lig"
      [] OTHER -> "nor"

\* __init__ and _build_layout: the object when the window opens
NewApp ==
    [ image_source |-> Unset,
      image_greyscale |-> Unset,
      image_mixed |-> Unset,
      image_recolorised |-> Unset,
      colorpoints_coords |-> Unset,
      colorpoint_mode_used |-> None,
      greyscale_method_used |-> None,
      manual_colorpoints_coords |-> Unset,
      manual_color_array |-> Unset,
      manual_greyscale_array |-> Unset,
      manual_mixed_array |-> Unset,
      manual_method_used |-> None,
      manual_drag_active |-> FALSE,
      manual_last_point |-> Unset,
      manual_sparse_counter |-> 0,
      status_var |-> "Load an image to begin.",
      greyscale_method_var |-> "Luminosity",
      colorpoint_mode_var |-> "Random",
      random_points_var |-> "500",
      uniform_w_interval_var |-> "10",
      uniform_h_interval_var |-> "10" ]

\* _reset_manual_state that keeps the mask
reset_manual_state_keeping_mask(s) ==
    [s EXCEPT !.manual_color_array = Unset,
              !.manual_greyscale_array = Unset,
              !.manual_mixed_array = Unset,
              !.manual_method_used = None,
              !.manual_drag_active = FALSE,
              !.manual_last_point = Unset,
              !.manual_sparse_counter = 0]

\* _reset_manual_state
reset_manual_state(s) ==
    [s EXCEPT !.manual_colorpoints_coords = Unset,
              !.manual_color_array = Unset,
              !.manual_greyscale_array = Unset,
              !.manual_mixed_array = Unset,
              !.manual_method_used = None,
              !.manual_drag_active = FALSE,
              !.manual_last_point = Unset,
              !.manual_sparse_counter = 0]

\* the assignments clear_images and load_source_image share: every derived
\* item back to None
reset_derived(s) ==
    reset_manual_state([s EXCEPT !.image_greyscale = Unset,
                                 !.image_mixed = Unset,
                                 !.image_recolorised = Unset,
                                 !.colorpoints_coords = Unset,
                                 !.colorpoint_mode_used = None,
                                 !.greyscale_method_used = None])

\* np.zeros((height, width, 3), dtype=bool)
ZeroMask(height, width) == [r \in 1..height |-> [c \in 1..width |-> <<FALSE, FALSE, FALSE>>]]

\* what a method of the object leaves: the object, and how the method
\* ended: the value it returned, the exception it raised, or "called" at a
\* call of RGB_to_greyscale or generate_mixed_img that binds its arguments.
\* The callbacks are followed up to such a call.
Ended(s, how) == [self |-> s, ended |-> how]

\* _rebuild_manual_mixed_from_mask: line 763, then the call of
\* RGB_to_greyscale with two arguments at line 764
rebuild_manual_mixed_from_mask(s) ==
    IF s.image_source = Unset \/ s.manual_colorpoints_coords = Unset
    THEN Ended(s, "None")
    ELSE Ended([s EXCEPT !.manual_color_array = s.image_source],
               CallOutcome(RGB_to_greyscale_parameters, 2))

\* _ensure_manual_selection_ready: lines 734-735, then the call of
\* RGB_to_greyscale with two arguments at line 736
ensure_manual_selection_ready(s, reset) ==
    IF s.image_source = Unset THEN Ended(s, "False")
    ELSE
    LET height == Len(s.image_source)
        width == Len(s.image_source[1])
        method_code == get_selected_greyscale_method_code(s)
        arrays_missing ==
            \/ s.manual_colorpoints_coords = Unset
            \/ s.manual_color_array = Unset
            \/ s.manual_greyscale_array = Unset
            \/ s.manual_mixed_array = Unset
        shape_changed ==
            /\ s.manual_colorpoints_coords # Unset
            /\ ~HasShape(s.manual_colorpoints_coords, height, width)
        method_changed == s.manual_method_used # method_code
    IN  IF reset \/ arrays_missing \/ shape_changed
        THEN Ended([s EXCEPT !.manual_colorpoints_coords = ZeroMask(height, width),
                             !.manual_color_array = s.image_source],
                   CallOutcome(RGB_to_greyscale_parameters, 2))
        ELSE IF method_changed
        THEN LET rebuilt == rebuild_manual_mixed_from_mask(s)
             IN  IF rebuilt.ended = "None" THEN Ended(rebuilt.self, "True") ELSE rebuilt
        ELSE Ended(s, "True")

\* _read_int: the integer, or None after a warning
read_int_ok(value, minimum) == value \in Numerals /\ int(value) >= minimum

\* _get_manual_selected_point_count
get_manual_selected_point_count(s) ==
    IF s.manual_colorpoints_coords = Unset THEN 0
    ELSE TrueCount(s.manual_colorpoints_coords, 1)

\* _generate_colorpoints_coords: the outcomes it can have, the mask in
\* coords when it returns one; "None" is the return of (None, "")
generate_colorpoints_coords(s, width, height) ==
    LET mode == s.colorpoint_mode_var
        Gave(mask) == [self |-> s, ended |-> "mask", coords |-> mask]
        Failed(e) == [self |-> e.self, ended |-> e.ended, coords |-> Unset]
    IN  IF mode = "Uniform"
        THEN IF read_int_ok(s.uniform_w_interval_var, 0) /\ read_int_ok(s.uniform_h_interval_var, 0)
             THEN {Gave(uniform_bool_array(width, height, int(s.uniform_w_interval_var),
                                           int(s.uniform_h_interval_var)))}
             ELSE {Failed(Ended(s, "None"))}
        ELSE IF mode = "Manual"
        THEN LET ready == ensure_manual_selection_ready(s, FALSE)
             IN  IF ready.ended # "True" THEN {Failed(IF ready.ended = "False"
                                                      THEN Ended(ready.self, "None")
                                                      ELSE ready)}
                 ELSE IF get_manual_selected_point_count(ready.self) = 0
                 THEN {Failed(Ended(ready.self, "None"))}
                 ELSE {[self |-> ready.self, ended |-> "mask",
                        coords |-> ready.self.manual_colorpoints_coords]}
        ELSE IF ~read_int_ok(s.random_points_var, 1) THEN {Failed(Ended(s, "None"))}
        ELSE IF int(s.random_points_var) > width * height THEN {Failed(Ended(s, "None"))}
        ELSE {Gave(random_bool_array(width, height, int(s.random_points_var), draw)) :
                 draw \in Draws(width * height, width * height)}

\* the items derived from the source image: the three images, the mask
\* and the mode and method they were made with, and the manual selection
DerivedItems ==
    {"image_greyscale", "image_mixed", "image_recolorised", "colorpoints_coords",
     "colorpoint_mode_used", "greyscale_method_used", "manual_colorpoints_coords",
     "manual_color_array", "manual_greyscale_array", "manual_mixed_array",
     "manual_method_used", "manual_drag_active", "manual_last_point",
     "manual_sparse_counter"}

Derived(s) == [f \in DerivedItems |-> s[f]]

InitGui ==
    /\ entry = "gui"
    /\ self = NewApp
    /\ callback = [name |-> "__init__", outcome |-> "returned", before |-> Derived(NewApp)]
    /\ args = Unset
    /\ result = Unset
    /\ D = <<>>
    /\ greyscale_array = <<>>
    /\ phi = "gaussian"
    /\ kernel_params \in {CHOOSE kp \in ValidParams : TRUE}
    /\ delta = DefaultDelta
    /\ requested = DefaultRequest
    /\ radii = Unset
    /\ cost = UnitCost
    /\ Fresh

\* a callback of the window ran: what it left, how it ended and the derived
\* items it found
Callback(name, s, outcome) ==
    /\ outcome # "called"
    /\ self' = s
    /\ callback' = [name |-> name, outcome |-> outcome, before |-> Derived(self)]
    /\ UNCHANGED <<recolorization, pc, helper>>

\* _require_source_image
require_source_image(s) == s.image_source # Unset

load_source_image ==
    /\ entry = "gui"
    /\ \E file_path \in Files :
           IF file_path = "" THEN Callback("load_source_image", self, "cancelled")
           ELSE IF ~IsImageFile(file_path) THEN Callback("load_source_image", self, "failed")
           ELSE Callback("load_source_image",
                         [reset_derived(self) EXCEPT !.image_source = ImageOpen(file_path),
                                                     !.status_var = "Loaded source image."],
                         "loaded")

clear_images ==
    /\ entry = "gui"
    /\ Callback("clear_images",
                [reset_derived(self) EXCEPT !.image_source = Unset,
                                            !.status_var = "Cleared all images."],
                "returned")

\* line 1260 calls RGB_to_greyscale with two arguments
create_greyscale_image ==
    /\ entry = "gui"
    /\ IF ~require_source_image(self) THEN Callback("create_greyscale_image", self, "no source")
       ELSE Callback("create_greyscale_image", self, CallOutcome(RGB_to_greyscale_parameters, 2))

\* lines 1279-1280 store the mask; line 1283 calls generate_mixed_img with
\* three arguments
create_mixed_image ==
    /\ entry = "gui"
    /\ IF ~require_source_image(self) THEN Callback("create_mixed_image", self, "no source")
       ELSE \E made \in generate_colorpoints_coords(self, Len(self.image_source[1]),
                                                    Len(self.image_source)) :
               IF made.ended = "None" THEN Callback("create_mixed_image", made.self, "returned")
               ELSE IF made.ended # "mask" THEN Callback("create_mixed_image", made.self, made.ended)
               ELSE Callback("create_mixed_image",
                             [made.self EXCEPT !.colorpoints_coords = made.coords,
                                               !.colorpoint_mode_used = self.colorpoint_mode_var],
                             CallOutcome(generate_mixed_img_parameters, 3))

\* line 1302 calls RGB_to_greyscale with two arguments whenever no greyscale
\* image of the selected method is stored; lines 1306-1319 come after a
\* stored one
create_recolorised_image ==
    /\ entry = "gui"
    /\ IF ~require_source_image(self) THEN Callback("create_recolorised_image", self, "no source")
       ELSE /\ \/ self.image_greyscale = Unset
               \/ self.greyscale_method_used # get_selected_greyscale_method_code(self)
            /\ Callback("create_recolorised_image", self,
                        CallOutcome(RGB_to_greyscale_parameters, 2))

\* the user picks a mode in the menu: colorpoint_mode_var is written and
\* its trace runs _on_colorpoint_mode_change
on_colorpoint_mode_change ==
    /\ entry = "gui"
    /\ \E mode \in ColorpointModes :
           LET s == [self EXCEPT !.colorpoint_mode_var = mode]
               ready == ensure_manual_selection_ready(s, FALSE)
           IN  IF mode # "Manual" THEN Callback("_on_colorpoint_mode_change", s, "returned")
               ELSE IF s.image_source = Unset
               THEN Callback("_on_colorpoint_mode_change",
                             [s EXCEPT !.status_var = "Load a source image, then click and drag to select manual points."],
                             "returned")
               ELSE IF ready.ended = "True"
               THEN Callback("_on_colorpoint_mode_change",
                             [ready.self EXCEPT !.status_var = "Manual mode active. Click and drag on source image to select points."],
                             "returned")
               ELSE IF ready.ended = "False"
               THEN Callback("_on_colorpoint_mode_change", ready.self, "returned")
               ELSE Callback("_on_colorpoint_mode_change", ready.self, ready.ended)

\* the user picks a method in the menu: greyscale_method_var is written and
\* its trace runs _on_greyscale_method_change
on_greyscale_method_change ==
    /\ entry = "gui"
    /\ \E method \in GreyscaleMethods :
           LET s == [self EXCEPT !.greyscale_method_var = method]
               rebuilt == rebuild_manual_mixed_from_mask(s)
           IN  IF s.colorpoint_mode_var # "Manual"
               THEN Callback("_on_greyscale_method_change", s, "returned")
               ELSE IF s.image_source = Unset \/ s.manual_colorpoints_coords = Unset
               THEN Callback("_on_greyscale_method_change", s, "returned")
               ELSE Callback("_on_greyscale_method_change", rebuilt.self,
                             IF rebuilt.ended = "None" THEN "returned" ELSE rebuilt.ended)

\* the user types into one of the entries; the traces of the interval
\* entries refresh the displayed count only
on_entry_edit ==
    /\ entry = "gui"
    /\ \E edit \in EntryEdits :
           Callback("entry", [self EXCEPT ![edit[1]] = edit[2]], "returned")

\* lines 699-702 come after _ensure_manual_selection_ready(reset=True)
reset_manual_points ==
    /\ entry = "gui"
    /\ LET ready == ensure_manual_selection_ready(self, TRUE)
       IN  IF self.image_source = Unset
           THEN Callback("_reset_manual_points",
                         [self EXCEPT !.status_var = "Load a source image before resetting manual points."],
                         "returned")
           ELSE IF self.colorpoint_mode_var # "Manual"
           THEN Callback("_reset_manual_points", self, "returned")
           ELSE IF ready.ended \in {"True", "False"}
           THEN Callback("_reset_manual_points",
                         [ready.self EXCEPT !.colorpoints_coords = Unset,
                                            !.colorpoint_mode_used = None,
                                            !.status_var = "Manual points reset."],
                         "returned")
           ELSE Callback("_reset_manual_points", ready.self, ready.ended)

\* lines 879-891 come after _ensure_manual_selection_ready() returned True,
\* which takes a stored greyscale array
on_source_mouse_down ==
    /\ entry = "gui"
    /\ LET ready == ensure_manual_selection_ready(self, FALSE)
       IN  IF self.colorpoint_mode_var # "Manual"
           THEN Callback("_on_source_mouse_down", self, "returned")
           ELSE IF ready.ended = "False"
           THEN Callback("_on_source_mouse_down", ready.self, "returned")
           ELSE /\ ready.ended # "True"
                /\ Callback("_on_source_mouse_down", ready.self, ready.ended)

\* lines 908-921 come after a mouse press that set manual_drag_active
on_source_mouse_drag ==
    /\ entry = "gui"
    /\ self.colorpoint_mode_var # "Manual" \/ ~self.manual_drag_active
    /\ Callback("_on_source_mouse_drag", self, "returned")

on_source_mouse_up ==
    /\ entry = "gui"
    /\ Callback("_on_source_mouse_up",
                [self EXCEPT !.manual_drag_active = FALSE, !.manual_last_point = Unset],
                "returned")

NextGui ==
    \/ load_source_image
    \/ clear_images
    \/ create_greyscale_image
    \/ create_mixed_image
    \/ create_recolorised_image
    \/ on_colorpoint_mode_change
    \/ on_greyscale_method_change
    \/ on_entry_edit
    \/ reset_manual_points
    \/ on_source_mouse_down
    \/ on_source_mouse_drag
    \/ on_source_mouse_up

SpecGui == InitGui /\ [][NextGui]_vars

---------------------------------------------------------------------------
(* Properties.                                                             *)

X_D == PositionsOf(D)
N_D == Len(D)

\* a stage ran: its result is assigned
Ran(stage) == \E i \in 1..Len(stages) : stages[i] = stage
HasKD == Ran("BuildTrainingKernel")
HasCoefficients == Ran("Solve")
HasKomega == Ran("BuildEvaluationKernel")
HasFs == Ran("Predict")
HasImage == Ran("Emit")

InGrid(pos) == 0 <= pos[1] /\ pos[1] < Height /\ 0 <= pos[2] /\ pos[2] < Width

\* every sample lies on the grid
SamplesInGrid == \A i \in 1..N_D : InGrid(X_D[i])

\* a call within the documented domain of every input
ValidCall == SamplesInGrid /\ N_D >= 1 /\ ParamsValid(kernel_params, delta)

AbsDiff(a, b) == IF a >= b THEN a - b ELSE b - a

\* C1: for every pair of sample positions the intensity difference kernel()
\* feeds to phi is the true |g(x) - g(y)|; the uint8 subtraction never wraps.
C1_IntensityDifferenceNeverWraps ==
    (HasKD /\ ValidCall) =>
        \A i, j \in 1..N_D :
            IntensityDiff(GreyAt(greyscale_array, X_D[i]), GreyAt(greyscale_array, X_D[j]))
                = AbsDiff(GreyAt(greyscale_array, X_D[i]), GreyAt(greyscale_array, X_D[j]))

\* C2: the training matrix kernel(phi, X, X, ...) is symmetric:
\* K[i][j] = K[j][i] for all i, j.
C2_KernelMatrixSymmetric ==
    (HasKD /\ ValidCall) => \A i, j \in 1..N_D : RatEq(KD[i][j], KD[j][i])

\* the prediction for grid position (r, c), channel ch, before clipping
Predicted(r, c, ch) ==
    RatSum([j \in 1..N_D |-> RatMul(Komega[(r - 1) * Width + c][j], a_s[j][ch])])

ClipThenTruncate(v) ==
    IF RatSign(v) < 0 THEN 0
    ELSE IF RatLt(RatOfInt(255), v) THEN 255
    ELSE RatFloorIn(v, 0, 255)

\* C3: every channel value of the emitted image is the prediction clipped to
\* [0,255] and then truncated, so it lies in 0..255 and is never the low 8
\* bits of an out-of-range prediction.
C3_EmittedIsClippedThenTruncated ==
    pc = "emitted" =>
        \A r \in 1..Height, c \in 1..Width, ch \in 1..Channels :
            /\ F_img[r][c][ch] \in 0..255
            /\ F_img[r][c][ch] = ClipThenTruncate(Predicted(r, c, ch))

OutOfRange(v) == RatLeq(v, RatOfInt(-1)) \/ RatLeq(RatOfInt(256), v)

C3_Witness ==
    /\ pc = "emitted"
    /\ \E r \in 1..Height, c \in 1..Width, ch \in 1..Channels :
          OutOfRange(Predicted(r, c, ch))

\* C4: an empty sample set is rejected before any kernel matrix is built and
\* no image is returned.
C4_EmptySampleSetRejected ==
    (N_D = 0 /\ ParamsValid(kernel_params, delta)) => ~HasKD /\ ~HasKomega /\ ~HasImage

\* C5: kernel parameters outside their domain (sig1 <= 0, sig2 <= 0, p <= 0,
\* p > 2, delta < 0) are rejected before a kernel matrix is built.
C5_InvalidParametersRejected ==
    (~ParamsValid(kernel_params, delta) /\ SamplesInGrid /\ N_D >= 1) => ~HasKD /\ ~HasKomega

\* C6: a sample whose position lies outside the grid is rejected; a negative
\* row or column is never read as an index from the far edge.
C6_OutOfGridSampleRejected ==
    (~SamplesInGrid /\ ParamsValid(kernel_params, delta)) => ~HasKD /\ ~HasKomega /\ ~HasImage

IsPrefix(s, t) == Len(s) <= Len(t) /\ \A i \in 1..Len(s) : s[i] = t[i]

StageOrder ==
    <<"BuildTrainingKernel", "Solve", "BuildEvaluationKernel", "Predict", "Clip", "Emit">>

\* C7: the stages of a call run in the order build training kernel, solve,
\* build evaluation kernel, predict, clip, emit; a stage that fails ends the
\* call: no later stage runs and no image is returned.
C7_StagesInOrderAndFailureAborts ==
    /\ IsPrefix(stages, StageOrder)
    /\ HasImage <=> pc = "emitted"
    /\ raised # None =>
          /\ pc = "raised"
          /\ ~HasImage
          /\ stages = (IF raised = "IndexError" THEN <<>> ELSE <<"BuildTrainingKernel">>)
          /\ raised = "LinAlgError" => ~HasCoefficients /\ ~HasKomega /\ ~HasFs
          /\ raised = "IndexError" => ~HasKD /\ ~HasCoefficients /\ ~HasKomega /\ ~HasFs

C7_Witness ==
    /\ entry = "recolorise"
    /\ raised = "IndexError"
    /\ stages = <<>>

\* C8: for delta > 0 the system KD + delta*N*I is solvable for every sample
\* set, duplicate positions included: the solve raises no error.
C8_RegularizedSystemSolvable ==
    delta[1] > 0 => raised # "LinAlgError" /\ (pc \notin {"start", "KD", "raised"} => HasCoefficients)

HasDuplicates == \E i, j \in 1..N_D : i # j /\ X_D[i] = X_D[j]

C8_Witness ==
    /\ delta[1] > 0
    /\ HasDuplicates
    /\ HasCoefficients

\* |det KD| <= NearSingularTol; the diagonal of KD is 1
NearSingularTol == Rat(1, 256 * 256)

SingularOrNearSingular(K) ==
    LET dt == Det(K)
    IN  RatLeq(dt, NearSingularTol) /\ RatLeq(RatNeg(dt), NearSingularTol)

\* C9: with delta = 0 and KD singular or near-singular the solve reports a
\* numerical error to the caller and returns no coefficient matrix.
C9_SingularSolveReported ==
    (delta[1] = 0 /\ ValidCall /\ HasKD /\ pc # "KD" /\ SingularOrNearSingular(KD)) =>
        raised = "LinAlgError" /\ ~HasCoefficients

\* KD + delta*N*I, with N the number of samples, every entry over the
\* denominator of KD times that of delta
RegularizedKD(i, j) ==
    LET k == RatExpand(KD[i][j], BigOfInt(delta[2]))
    IN  IF i = j
        THEN [n |-> BigAdd(k.n, BigMul(BigOfInt(delta[1] * N_D), KD[i][j].d)), d |-> k.d]
        ELSE k

\* C10: the coefficients satisfy (KD + delta*N*I) a_s = F, F the colours of
\* the samples (columns 2..4 of D), the ridge term scaled by exactly N.
C10_CoefficientsSolveRegularizedSystem ==
    HasCoefficients =>
        \A i \in 1..N_D, ch \in 1..Channels :
            RatEq(RatSum([j \in 1..N_D |-> RatMul(RegularizedKD(i, j), a_s[j][ch])]),
                  RatOfInt(D[i][2 + ch]))

C10_Witness ==
    /\ HasCoefficients
    /\ N_D >= 2
    /\ delta[1] # 0

\* C11: the profile used for both kernel matrices and the delta used in the
\* solve are the ones the caller of the entry point asked for.
C11_CallerKindAndDeltaUsed ==
    (entry = "recolorise" /\ HasKD) =>
        (phi = requested.kernelKind /\ delta = requested.delta)

\* the row of Komega that belongs to the pixel at an in-grid position
PixelRow(pos) == pos[1] * Width + pos[2] + 1

\* C12: within one call the training matrix and the evaluation matrix are
\* built with the same normalizers, sig1, sig2, p and phi: the entry of
\* Komega for the pixel a sample sits on and sample j is the entry of KD for
\* that sample and sample j.
C12_SameKernelForBothMatrices ==
    HasKomega =>
        \A i, j \in 1..N_D :
            InGrid(X_D[i]) => RatEq(Komega[PixelRow(X_D[i])][j], KD[i][j])

C12_Witness ==
    /\ HasKomega
    /\ N_D = 2
    /\ InGrid(X_D[1]) /\ InGrid(X_D[2])
    /\ X_D[1] # X_D[2]

\* the coefficients as a function of the arguments of the call
CoefficientsOf(d, g, kp) ==
    solve(SystemMatrix(kernel(phi, PositionsOf(d), PositionsOf(d), g, kp), delta, Len(d)),
          ColoursOf(d))

\* the output pixels lo..hi (row-major), computed by a worker that is given
\* rows lo..hi of the evaluation matrix and the coefficients a
ChunkImage(a, lo, hi) ==
    LET rows == kernel(phi, SubSeq(Pairs(Height, Width), lo, hi), PositionsOf(D),
                       greyscale_array, kernel_params)
        F == get_Fs(rows, a)
    IN  [k \in 1..Len(F) |-> [ch \in 1..Channels |-> np_uint8(np_clip(F[k][ch], 0, 255))]]

\* the chunk of pixel k when the rows are cut after each row in cuts
ChunkLo(cuts, k) == MaxOf({c + 1 : c \in {c \in cuts : c < k}} \cup {1})
ChunkHi(cuts, k) == -MaxOf({-c : c \in {c \in cuts : c >= k}} \cup {-(Height * Width)})

C14_InputsNeverMutated ==
    [][greyscale_array' = greyscale_array /\ D' = D]_vars

C14_Witness ==
    /\ pc \in {"emitted", "returned"}
    /\ Ran("Solve")
    /\ N_D >= 1

\* C15: kernel returns one row per point of X and one column per point of
\* Y: the training matrix is N x N and the evaluation matrix (H*W) x N for
\* N samples on an H x W grid, samples on the grid corners included.
C15_KernelMatrixShapes ==
    /\ HasKD =>
          /\ Len(KD) = N_D
          /\ \A i \in 1..Len(KD) : Len(KD[i]) = N_D
    /\ HasKomega =>
          /\ Len(Komega) = Height * Width
          /\ \A i \in 1..Len(Komega) : Len(Komega[i]) = N_D

C15_Witness ==
    /\ HasKomega
    /\ N_D = MaxSamples
    /\ Height * Width # N_D
    /\ \A i \in 1..N_D : X_D[i] \in Corners(Height, Width)
    /\ \E i, j \in 1..N_D : X_D[i] # X_D[j]

\* a kernel call with positive scales and exponent on points of the grid
KernelCallValid ==
    /\ kernel_params.sig1.sgn > 0
    /\ kernel_params.sig2.sgn > 0
    /\ kernel_params.p[1] > 0
    /\ SamplesInGrid

InUnitInterval(x) == RatSign(x) >= 0 /\ RatLeq(x, RatOne)

\* C16: with a valid kernel, Gaussian or Wendland, and points of the grid,
\* every entry of the training and evaluation matrices lies in [0,1] and
\* every diagonal entry of the training matrix is 1.
C16_KernelEntriesInUnitInterval ==
    KernelCallValid =>
        /\ HasKD =>
              /\ \A i, j \in 1..N_D : InUnitInterval(KD[i][j])
              /\ \A i \in 1..N_D : RatEq(KD[i][i], RatOne)
        /\ HasKomega =>
              \A i \in 1..(Height * Width) : \A j \in 1..N_D : InUnitInterval(Komega[i][j])

C16_Witness ==
    /\ KernelCallValid
    /\ HasKD
    /\ phi = "wendland"
    /\ N_D = MaxSamples
    /\ \E i, j \in 1..N_D : RatSign(KD[i][j]) = 0

\* C17: a profile called on an array returns an array of the same shape,
\* element by element: 1 where r = 0, no larger where r is larger, and for
\* the Wendland profile 0 wherever r >= 1; the call leaves its argument as
\* it was.
C17_ProfileContract ==
    /\ [](  (entry = "phi" /\ pc = "returned") =>
              /\ Len(values) = Len(radii)
              /\ \A i \in 1..Len(radii) : radii[i] = 0 => RatEq(values[i], RatOne)
              /\ \A i, j \in 1..Len(radii) :
                    radii[i] <= radii[j] => RatLeq(values[j], values[i])
              /\ phi = "wendland" =>
                    \A i \in 1..Len(radii) :
                        RatLeq(RatOne, Radius(kernel_params.sig1, radii[i]))
                            => RatSign(values[i]) = 0  )
    /\ [][radii' = radii]_vars

C17_Witness ==
    /\ entry = "phi"
    /\ pc = "returned"
    /\ phi = "wendland"
    /\ Len(radii) = MaxSamples
    /\ \E i, j \in 1..Len(radii) :
          /\ radii[i] = 0
          /\ RatEq(Radius(kernel_params.sig1, radii[j]), RatOne)

f_D == ColoursOf(D)

\* C18: with one sample of colour f the coefficient is f / (1 + delta), and
\* the image returned has, at the sample's position, f to within 1 in each
\* channel.
C18_SingleSample ==
    (N_D = 1 /\ KernelCallValid) =>
        /\ Ran("Solve") =>
              \A ch \in 1..Channels :
                  RatEq(RatMul(a_s[1][ch], RatAdd(RatOne, Rat(delta[1], delta[2]))),
                        RatOfInt(f_D[1][ch]))
        /\ HasImage =>
              \A ch \in 1..Channels :
                  AbsDiff(F_img[X_D[1][1] + 1][X_D[1][2] + 1][ch], f_D[1][ch]) <= 1

C18_Witness ==
    /\ N_D = 1
    /\ KernelCallValid
    /\ HasImage
    /\ X_D[1] = <<0, Width - 1>>
    /\ greyscale_array[1][1] # greyscale_array[1][Width]

\* the sample set covers every grid position exactly once
DenseSampling == X_D = Pairs(Height, Width)

\* delta is zero or tiny: at most one thousandth
DeltaTiny == 0 <= delta[1] /\ delta[1] * 1000 <= delta[2]

\* C19: when the samples cover every grid position once and delta is zero
\* or tiny, the image returned has, at every sample position, the sample's
\* colour to within 1 in each channel.
C19_DenseSamplingReproducesColours ==
    (HasImage /\ DenseSampling /\ DeltaTiny /\ KernelCallValid) =>
        \A i \in 1..N_D : \A ch \in 1..Channels :
            AbsDiff(F_img[X_D[i][1] + 1][X_D[i][2] + 1][ch], f_D[i][ch]) <= 1

\* C20: once the caller has asked for cancellation, the evaluation stage
\* stops and the call returns no image.
C20_CancelledCallReturnsNoImage ==
    (entry = "recolorise" /\ requested.cancel) => ~HasImage

---------------------------------------------------------------------------
(* The calls on the wide grid, the helpers and the window.                 *)

\* the time the stages of S took together
RECURSIVE CostOf(_)
CostOf(S) ==
    IF S = {} THEN 0
    ELSE LET s == CHOOSE s \in S : TRUE IN cost[s] + CostOf(S \ {s})

\* C23: the elapsed time recolorise returns covers exactly the evaluation
\* phase: the evaluation-matrix build and the prediction, and neither the
\* training-matrix build and the solve before them nor the clipping and the
\* conversion after them.
C23_ElapsedCoversEvaluationPhase ==
    /\ HasKomega => start = CostOf({"BuildTrainingKernel", "Solve"})
    /\ HasFs => total_time = CostOf({"BuildEvaluationKernel", "Predict"})

C23_Witness ==
    /\ pc = "emitted"
    /\ cost["Solve"] > 1
    /\ total_time = 2

\* the prediction for the pixel at grid position pos, channel ch, computed
\* from the position itself
PointPrediction(pos, ch) ==
    RatSum([j \in 1..N_D |->
        RatMul(KernelEntry(phi, pos, X_D[j], greyscale_array, kernel_params),
               a_s[j][ch])])

\* C27: the output pixel at (r, c) is the prediction for grid position
\* (r, c), also on a grid with H # W: flattening the grid and reshaping the
\* prediction are inverse index mappings.
C27_PixelIsPredictionForItsPosition ==
    pc = "emitted" =>
        \A r \in 1..Height, c \in 1..Width, ch \in 1..Channels :
            F_img[r][c][ch] = ClipThenTruncate(PointPrediction(<<r - 1, c - 1>>, ch))

C27_Witness ==
    /\ pc = "emitted"
    /\ Height > 1 /\ Width > 1 /\ Height # Width
    /\ \E c \in 2..Width : F_img[1][c] # F_img[1][1]
    /\ \E r \in 2..Height : F_img[r][1] # F_img[1][1]

Returned(name) == entry = name /\ pc = "returned"

\* the documented formulas on the true integer channel values
TrueGreySum(pixel, method) ==
    IF method = "avg" THEN pixel[1] + pixel[2] + pixel[3]
    ELSE Max2(Max2(pixel[1], pixel[2]), pixel[3]) + Min2(Min2(pixel[1], pixel[2]), pixel[3])

TrueGrey(pixel, method) ==
    TrueGreySum(pixel, method) \div (IF method = "avg" THEN 3 ELSE 2)

\* C22: the methods 'avg' and 'lig' compute (R + G + B) / 3 and
\* (max(R, G, B) + min(R, G, B)) / 2 on the true channel values of every
\* 8-bit pixel, in convert_bands_to_greyscale and in func.py's greyscale: no
\* intermediate sum wraps modulo 256.
C22_GreyFormulaOnTrueValues ==
    /\ Returned("convert_bands_to_greyscale") =>
          result[1][1] = <<TrueGrey(args.pixel, args.method),
                           TrueGrey(args.pixel, args.method),
                           TrueGrey(args.pixel, args.method)>>
    /\ Returned("greyscale") =>
          result[1][1][1] = TrueGreySum(args.pixel, args.method)

\* the True positions of a mask, as <<row, col>>
TruePositions(mask) ==
    {pos \in (0..(Len(mask) - 1)) \X (0..(Len(mask[1]) - 1)) : mask[pos[1] + 1][pos[2] + 1][1]}

\* C24: get_D returns exactly one row (row, col, R, G, B) for each True
\* position of the mask, in row-major order, with the colour of the image at
\* that position; the positions are distinct and inside the image.
C24_OneRowPerTruePosition ==
    Returned("get_D") =>
        LET img == args.img
            T == TruePositions(args.colorpoints_coords)
        IN  /\ Len(result) = Cardinality(T)
            /\ \A k \in 1..Len(result) :
                  /\ Len(result[k]) = 5
                  /\ <<result[k][1], result[k][2]>> \in T
                  /\ 0 <= result[k][1] /\ result[k][1] < Len(img)
                  /\ 0 <= result[k][2] /\ result[k][2] < Len(img[1])
                  /\ <<result[k][3], result[k][4], result[k][5]>>
                         = img[result[k][1] + 1][result[k][2] + 1]
            /\ \A k \in 1..(Len(result) - 1) :
                  /\ PosLeq(<<result[k][1], result[k][2]>>,
                            <<result[k + 1][1], result[k + 1][2]>>)
                  /\ <<result[k][1], result[k][2]>> # <<result[k + 1][1], result[k + 1][2]>>

C24_Witness ==
    /\ Returned("get_D")
    /\ Len(args.img) > 1 /\ Len(args.img[1]) > 1
    /\ Len(result) = 3
    /\ result[1][1] = 0 /\ result[1][2] = 1
    /\ result[2][1] = 1 /\ result[2][2] = 0

\* C25: for width, height >= 1 and intervals >= 0, uniform_bool_array
\* returns a (height, width, 3) mask that is True exactly where the row is a
\* multiple of h_interval + 1 and the column a multiple of w_interval + 1,
\* and the number of those pixels is the count the window displays.
C25_UniformMaskAndCount ==
    Returned("uniform_bool_array") =>
        /\ HasShape(result, args.height, args.width)
        /\ \A r \in 1..args.height, c \in 1..args.width, k \in 1..3 :
              result[r][c][k] <=> ((r - 1) % (args.h_interval + 1) = 0
                                   /\ (c - 1) % (args.w_interval + 1) = 0)
        /\ TrueCount(result, 1) = count_uniform_colorpoints(args.width, args.height,
                                                            args.w_interval, args.h_interval)

C25_Witness ==
    /\ Returned("uniform_bool_array")
    /\ args.w_interval = 1 /\ args.h_interval = 2
    /\ args.width = 4 /\ args.height = 3
    /\ TrueCount(result, 1) = 2

\* C26: for 0 <= number_of_points <= height * width, random_bool_array
\* returns a (height, width, 3) mask with exactly number_of_points True pixel
\* positions and three identical planes, whatever is drawn.
C26_RandomMaskHasExactCount ==
    Returned("random_bool_array") =>
        /\ HasShape(result, args.height, args.width)
        /\ TrueCount(result, 1) = args.number_of_points
        /\ \A r \in 1..args.height, c \in 1..args.width :
              result[r][c][1] = result[r][c][2] /\ result[r][c][2] = result[r][c][3]

C26_Witness ==
    /\ Returned("random_bool_array")
    /\ args.height = 2 /\ args.width = 2
    /\ args.number_of_points = 2
    /\ result[1][1][1] /\ result[2][2][1]

\* the inputs of the selected colorpoint mode are valid for the source image
ValidColorpointInputs(s) ==
    IF s.colorpoint_mode_var = "Uniform"
    THEN read_int_ok(s.uniform_w_interval_var, 0) /\ read_int_ok(s.uniform_h_interval_var, 0)
    ELSE IF s.colorpoint_mode_var = "Manual"
    THEN get_manual_selected_point_count(s) > 0
    ELSE /\ read_int_ok(s.random_points_var, 1)
         /\ int(s.random_points_var) <= Len(s.image_source) * Len(s.image_source[1])

\* C21: in the window, with a source image loaded and valid colorpoint
\* inputs, create_recolorised_image ends without an error, image_recolorised
\* holds an H x W x 3 image and the status reads 'Generated recolorised
\* image.'.
C21_RecoloriseButtonShowsImage ==
    (/\ entry = "gui"
     /\ callback.name = "create_recolorised_image"
     /\ self.image_source # Unset
     /\ ValidColorpointInputs(self)) =>
        /\ callback.outcome = "returned"
        /\ HasShape(self.image_recolorised, Len(self.image_source), Len(self.image_source[1]))
        /\ self.status_var = "Generated recolorised image."

\* the callback of this step reset the window: clear_images, or a load that
\* opened an image
Resets(cb) ==
    \/ cb.name = "clear_images"
    \/ cb.name = "load_source_image" /\ cb.outcome = "loaded"

\* the callback of this step had nothing to work on: a load that was
\* cancelled or failed, or a generate operation without a source image
Refused(cb) ==
    \/ cb.name = "load_source_image" /\ cb.outcome \in {"cancelled", "failed"}
    \/ /\ cb.name \in {"create_greyscale_image", "create_mixed_image",
                       "create_recolorised_image"}
       /\ cb.outcome = "no source"

\* C30: clear_images and a successful load_source_image leave every derived
\* item empty; a cancelled or failed load and a generate operation without a
\* source image leave the whole object as it was.
C30_ResetsAndRefusals ==
    [][entry = "gui" =>
          /\ Resets(callback') => Derived(self') = Derived(NewApp)
          /\ Refused(callback') => self' = self]_vars

C30_Witness ==
    /\ entry = "gui"
    /\ callback.name = "clear_images"
    /\ callback.before.colorpoints_coords # Unset
    /\ callback.before.manual_colorpoints_coords # Unset
    /\ callback.before.colorpoint_mode_used = "Uniform"
    /\ Derived(self) = Derived(NewApp)
===========================================================================
